---- MODULE Spec2Model ----
(***************************************************************************)
(* Model of src/getdemos.ts: the GetDemos client.  A client owns an axios   *)
(* instance with one request interceptor (bearer-token injection from the   *)
(* token storage) and one response interceptor (classification by status    *)
(* and by the envelope's ok flag).  doLogin stores the returned token,      *)
(* checkUpdate compares the latest release's version with the caller's.     *)
(* Every call is an async task: its awaits are the points where other       *)
(* calls may run, so each await boundary is a separate action.              *)
(***************************************************************************)
EXTENDS Integers, Sequences, FiniteSets, TLC

\* ---- bounds ----
MaxCalls == 2      \* calls issued in one run (they may all be in flight at once)
MaxParts == 2      \* dotted components in a version string
MaxComp == 1       \* largest number in a version component

Calls == 1..MaxCalls

\* ---- values ----
\* localStorage.getItem returns null when the key is absent.
Null == "<null>"
\* Token strings the server may hand out (ApiMessage<string>.data of /api/auth).
Tokens == {"tokA", "tokB"}
\* The request carries no Authorization header.
NoHeader == "<none>"

None == [kind |-> "none"]
Undefined == [kind |-> "undefined"]

\* HTTP statuses the server answers with: a 2xx, a non-2xx, and 500.
Statuses == {200, 404, 500}

\* Version strings: <<1, 0>> is "1.0"; <<>> is a string compare-versions
\* rejects as malformed.
RECURSIVE SeqsUpTo(_)
SeqsUpTo(n) ==
    IF n = 0 THEN {<<>>}
    ELSE LET shorter == SeqsUpTo(n - 1)
         IN  shorter \cup {Append(s, c) : s \in {t \in shorter : Len(t) = n - 1}, c \in 0..MaxComp}
Versions == SeqsUpTo(MaxParts)
IsValidVersion(v) == Len(v) >= 1

Operations == {"doLogin", "resource", "confirmInvitation", "checkUpdate"}

\* opts.axiosConfigs.validateStatus: axios' default accepts 2xx only; a
\* caller may pass one that accepts every status.
ValidateModes == {"default", "acceptAll"}

\* ---- state ----
VARIABLES
    validateStatus,  \* the axios instance's validateStatus (fixed at construction)
    token,           \* the GETDEMOS_TOKEN slot of the storage
    setCount,        \* history: number of storage.set calls performed so far
    call             \* call[i]: the state of the i-th call made on the client

vars == <<validateStatus, token, setCount, call>>

Pending == [state |-> "pending", value |-> None]
Resolved(v) == [state |-> "resolved", value |-> v]
Rejected(v) == [state |-> "rejected", value |-> v]

IdleCall ==
    [op |-> "none",          \* which method of GetDemos was called
     arg |-> <<>>,           \* checkUpdate's versionName
     pc |-> "idle",          \* position of the async task
     got |-> Null,           \* what storage.get() resolved to
     hdr |-> NoHeader,       \* configs.headers.Authorization
     sent |-> FALSE,         \* the request was handed to the transport
     resp |-> None,          \* what the transport delivered (response or error)
     settle |-> Pending,     \* the promise this.client.get/post/... returned
     outcome |-> Pending,    \* the promise the method returned to its caller
     setAt |-> 0,            \* history: setCount right after this call's storage.set
     gotAt |-> 0,            \* history: setCount when storage.get() read the slot
     after |-> {}]           \* history: doLogin calls already resolved at issue time

\* ---- values built by the code ----
Body(ok, d) == [ok |-> ok, data |-> d]
Response(s, b) == [kind |-> "response", status |-> s, data |-> b]
\* axios' error for a response validateStatus refuses (error.response is the
\* response) or for a network failure (error.response is undefined).
AxiosError(r) == [kind |-> "error", response |-> r]
\* The error storage.get() rejects with; it has no response member.
StoreError == [kind |-> "error", response |-> Undefined, cause |-> "storage.get failed"]
\* The error compareVersions throws on a malformed version string.
VersionError == [kind |-> "error", response |-> Undefined, cause |-> "invalid version"]
\* msg stands for the literal of line 97.
ServerErrorMsg == "server internal error"
GenericError == [kind |-> "object", ok |-> FALSE, msg |-> ServerErrorMsg]

\* `Bearer ${token}`
Bearer(t) == "Bearer " \o t

\* Variant: the null test of line 74 is missing.
AuthorizationFor_NoNullTest(t) == Bearer(t)

\* Request interceptor, lines 74-76: the header set from the token read.
AuthorizationFor(t) == IF t # Null THEN Bearer(t) ELSE NoHeader

\* Request interceptor's error handler, lines 80-87.
requestRejected(error) == Rejected([kind |-> "object", ok |-> FALSE, msg |-> error])

\* Variant: rejects with the body instead of the response.
responseFulfilled_RejectBody(response) ==
    IF response.status = 500 THEN Rejected(GenericError)
    ELSE IF response.data.ok = "true" THEN Resolved(response)
    ELSE Rejected(response.data)

\* Variant: the ok flag is not inspected.
responseFulfilled_NoOkTest(response) ==
    IF response.status = 500 THEN Rejected(GenericError)
    ELSE Resolved(response)

\* Response interceptor's fulfilled handler, lines 91-105.
responseFulfilled(response) ==
    IF response.status = 500 THEN Rejected(GenericError)
    ELSE IF response.data.ok = "true" THEN Resolved(response)
    ELSE Rejected(response)

\* Response interceptor's error handler, lines 106-110.
responseRejected(error) == Rejected(error.response)

\* axios settle(): validateStatus decides whether a completed exchange
\* reaches the fulfilled handler or the error handler.
Accepts(mode, status) == mode = "acceptAll" \/ (status >= 200 /\ status < 300)

\* compareVersions(v1, v2) for valid dotted-numeric strings: components are
\* compared left to right as numbers, a missing component counts as 0.
Part(v, k) == IF k <= Len(v) THEN v[k] ELSE 0
MaxOf(a, b) == IF a >= b THEN a ELSE b
RECURSIVE compareFrom(_, _, _)
compareFrom(v1, v2, k) ==
    IF k > MaxOf(Len(v1), Len(v2)) THEN 0
    ELSE IF Part(v1, k) > Part(v2, k) THEN 1
    ELSE IF Part(v2, k) > Part(v1, k) THEN -1
    ELSE compareFrom(v1, v2, k + 1)
compareVersions(v1, v2) == compareFrom(v1, v2, 1)

\* Variant: the comparison of line 202 is "not older" instead of "newer".
updateResult_NotOlder(release, versionName) ==
    IF compareVersions(release.version, versionName) # -1
    THEN [kind |-> "result", latest |-> FALSE, release |-> release]
    ELSE [kind |-> "result", latest |-> TRUE]

\* checkUpdate, lines 201-208: the result built from the comparison.
updateResult(release, versionName) ==
    IF compareVersions(release.version, versionName) = 1
    THEN [kind |-> "result", latest |-> FALSE, release |-> release]
    ELSE [kind |-> "result", latest |-> TRUE]

\* The data member a server puts in a success envelope for each operation.
DataFor(o) ==
    IF o = "doLogin" THEN Tokens
    ELSE IF o = "checkUpdate" THEN {[version |-> v] : v \in Versions}
    ELSE {"payload"}

\* The envelopes a server answers with: a success envelope with the
\* operation's data, a failure envelope (ok false, no data), or a body
\* without an ok member.
Bodies(o) ==
    {Body("true", d) : d \in DataFor(o)} \cup {Body("false", Null), Body("absent", Null)}

\* ---- initial state: lines 66-112, the constructor ----
\* The constructor builds the axios instance from opts.axiosConfigs; the
\* storage holds no token yet and no call has been made.
Init ==
    /\ validateStatus \in ValidateModes
    /\ token = Null
    /\ setCount = 0
    /\ call = [i \in Calls |-> IdleCall]

Settled(c, out) ==
    [c EXCEPT !.outcome = out, !.pc = "done"]

LoginResolved(i) == call[i].op = "doLogin" /\ call[i].outcome.state = "resolved"

\* ---- a method of GetDemos is called ----
\* Calls are numbered in the order they are made.
Issue(i, o, a) ==
    /\ call[i].pc = "idle"
    /\ \A j \in Calls : j < i => call[j].pc # "idle"
    /\ call' = [call EXCEPT ![i] =
                 [@ EXCEPT !.op = o, !.arg = a, !.pc = "reqGet",
                           !.after = {k \in Calls : LoginResolved(k)}]]
    /\ UNCHANGED <<validateStatus, token, setCount>>

\* ---- request interceptor, lines 72-79 ----
\* Variant: the interceptor uses the token it saw at construction.
ReqGet_Cached(i) ==
    /\ call[i].pc = "reqGet"
    /\ call' = [call EXCEPT ![i] =
                 [@ EXCEPT !.got = Null, !.gotAt = setCount, !.pc = "reqAttach"]]
    /\ UNCHANGED <<validateStatus, token, setCount>>

\* line 73: storage.get() reads the slot (DefaultStorage.get, lines 54-56).
ReqGet(i) ==
    /\ call[i].pc = "reqGet"
    /\ call' = [call EXCEPT ![i] =
                 [@ EXCEPT !.got = token, !.gotAt = setCount, !.pc = "reqAttach"]]
    /\ UNCHANGED <<validateStatus, token, setCount>>

\* line 73: storage.get() rejects.  The rejection skips dispatchRequest and
\* arrives at the response interceptor's error handler, the next rejection
\* handler of the chain (the request interceptor's own error handler only
\* serves handlers registered before it, and there are none).
ReqGetFails(i) ==
    /\ call[i].pc = "reqGet"
    /\ call' = [call EXCEPT ![i] = [@ EXCEPT !.resp = StoreError, !.pc = "respRejected"]]
    /\ UNCHANGED <<validateStatus, token, setCount>>

\* lines 74-78: after the await, set the header and hand the request on.
ReqAttach(i) ==
    /\ call[i].pc = "reqAttach"
    /\ call' = [call EXCEPT ![i] =
                 [@ EXCEPT !.hdr = AuthorizationFor(call[i].got), !.sent = TRUE, !.pc = "dispatch"]]
    /\ UNCHANGED <<validateStatus, token, setCount>>

\* ---- response interceptor, lines 90-111 ----
\* What the transport hands to the interceptor for a request it dispatched:
\* a completed exchange, which axios' settle() passes to the fulfilled
\* handler when validateStatus accepts the status and wraps in an error
\* (error.response is the response) when it does not, or no exchange at all
\* (network failure: error.response is undefined).
Exchanges(o) == {Response(s, b) : s \in Statuses, b \in Bodies(o)}

\* Fulfilled handler, lines 91-105, on an exchange validateStatus accepts.
RespFulfilled(i) ==
    /\ call[i].pc = "dispatch"
    /\ \E response \in Exchanges(call[i].op) :
         /\ Accepts(validateStatus, response.status)
         /\ call' = [call EXCEPT ![i] =
                      [@ EXCEPT !.resp = response,
                                !.settle = responseFulfilled(response), !.pc = "cont"]]
    /\ UNCHANGED <<validateStatus, token, setCount>>

\* Variant: a failed exchange logs the user out.
RespRejected_ClearsToken(i) ==
    /\ call[i].pc = "dispatch"
    /\ \E error \in {AxiosError(r) : r \in {x \in Exchanges(call[i].op) :
                                             ~ Accepts(validateStatus, x.status)}
                                          \cup {Undefined}} :
         call' = [call EXCEPT ![i] =
                   [@ EXCEPT !.resp = error,
                             !.settle = responseRejected(error), !.pc = "cont"]]
    /\ token' = Null
    /\ UNCHANGED <<validateStatus, setCount>>

\* Error handler, lines 106-110, on an exchange validateStatus refuses or on
\* a network failure.
RespRejected(i) ==
    /\ call[i].pc = "dispatch"
    /\ \E error \in {AxiosError(r) : r \in {x \in Exchanges(call[i].op) :
                                             ~ Accepts(validateStatus, x.status)}
                                          \cup {Undefined}} :
         call' = [call EXCEPT ![i] =
                   [@ EXCEPT !.resp = error,
                             !.settle = responseRejected(error), !.pc = "cont"]]
    /\ UNCHANGED <<validateStatus, token, setCount>>

\* Error handler, lines 106-110, on the rejection of the request interceptor.
RespRejectedUnsent(i) ==
    /\ call[i].pc = "respRejected"
    /\ call' = [call EXCEPT ![i] =
                 [@ EXCEPT !.settle = responseRejected(call[i].resp), !.pc = "cont"]]
    /\ UNCHANGED <<validateStatus, token, setCount>>

\* ---- the methods' continuations ----
\* getAllApps ... getTags except confirmInvitation (lines 130-176, 190-192,
\* 211-233): the method returns the client's promise.
ResourceReturn(i) ==
    /\ call[i].pc = "cont"
    /\ call[i].op = "resource"
    /\ call' = [call EXCEPT ![i] = Settled(@, @.settle)]
    /\ UNCHANGED <<validateStatus, token, setCount>>

\* confirmInvitation, lines 182-184: awaits the client's promise and returns
\* nothing.
ConfirmReturn(i) ==
    /\ call[i].pc = "cont"
    /\ call[i].op = "confirmInvitation"
    /\ call' = [call EXCEPT ![i] =
                 Settled(@, IF @.settle.state = "resolved" THEN Resolved(Undefined)
                            ELSE @.settle)]
    /\ UNCHANGED <<validateStatus, token, setCount>>

\* Variant: the token is not stored.
LoginStore_NoSet(i) ==
    /\ call[i].pc = "cont"
    /\ call[i].op = "doLogin"
    /\ call' = [call EXCEPT ![i] =
                 IF @.settle.state = "rejected" THEN Settled(@, @.settle)
                 ELSE [@ EXCEPT !.pc = "loginReturn"]]
    /\ UNCHANGED <<validateStatus, token, setCount>>

\* doLogin, lines 119-122: a rejected post rejects doLogin; otherwise
\* storage.set(res.data.data) runs when res.data.ok (DefaultStorage.set,
\* lines 58-60, writes the slot) and doLogin awaits it.
LoginStore(i) ==
    /\ call[i].pc = "cont"
    /\ call[i].op = "doLogin"
    /\ LET res == call[i].settle.value
       IN  IF call[i].settle.state = "rejected"
           THEN /\ call' = [call EXCEPT ![i] = Settled(@, @.settle)]
                /\ UNCHANGED <<token, setCount>>
           ELSE IF res.data.ok = "true"
           THEN /\ token' = res.data.data
                /\ setCount' = setCount + 1
                /\ call' = [call EXCEPT ![i] =
                             [@ EXCEPT !.setAt = setCount + 1, !.pc = "loginReturn"]]
           ELSE /\ call' = [call EXCEPT ![i] = [@ EXCEPT !.pc = "loginReturn"]]
                /\ UNCHANGED <<token, setCount>>
    /\ UNCHANGED validateStatus

\* doLogin, line 123: return res.
LoginReturn(i) ==
    /\ call[i].pc = "loginReturn"
    /\ call' = [call EXCEPT ![i] = Settled(@, Resolved(@.settle.value))]
    /\ UNCHANGED <<validateStatus, token, setCount>>

\* checkUpdate, lines 200-208: a rejected fetch rejects checkUpdate;
\* compareVersions throws on a malformed string; otherwise the result.
CheckUpdate(i) ==
    /\ call[i].pc = "cont"
    /\ call[i].op = "checkUpdate"
    /\ LET latestRelease == call[i].settle.value
           out == IF call[i].settle.state = "rejected" THEN call[i].settle
                  ELSE IF ~ IsValidVersion(latestRelease.data.data.version)
                          \/ ~ IsValidVersion(call[i].arg)
                  THEN Rejected(VersionError)
                  ELSE Resolved(updateResult(latestRelease.data.data, call[i].arg))
       IN  call' = [call EXCEPT ![i] = Settled(@, out)]
    /\ UNCHANGED <<validateStatus, token, setCount>>

\* Calls that share the storage: any number of logins and requests in flight.
Next ==
    \/ \E i \in Calls, o \in {"doLogin", "resource"} : Issue(i, o, <<>>)
    \/ \E i \in Calls : ReqGet(i)
    \/ \E i \in Calls : ReqGetFails(i)
    \/ \E i \in Calls : ReqAttach(i)
    \/ \E i \in Calls : RespFulfilled(i)
    \/ \E i \in Calls : RespRejected(i)
    \/ \E i \in Calls : RespRejectedUnsent(i)
    \/ \E i \in Calls : ResourceReturn(i)
    \/ \E i \in Calls : LoginStore(i)
    \/ \E i \in Calls : LoginReturn(i)

Spec == Init /\ [][Next]_vars

\* One call of any method, followed from the call to its settlement.
NextOne ==
    \/ \E o \in Operations \ {"checkUpdate"} : Issue(1, o, <<>>)
    \/ \E v \in Versions : Issue(1, "checkUpdate", v)
    \/ ReqGet(1)
    \/ ReqGetFails(1)
    \/ ReqAttach(1)
    \/ RespFulfilled(1)
    \/ RespRejected(1)
    \/ RespRejectedUnsent(1)
    \/ ResourceReturn(1)
    \/ ConfirmReturn(1)
    \/ LoginStore(1)
    \/ LoginReturn(1)
    \/ CheckUpdate(1)

SpecOne == Init /\ [][NextOne]_vars

\* ---- what the claims speak about ----
\* The completed HTTP exchange of call i: the response the fulfilled handler
\* received, or the one inside the error the error handler received.
Exchange(i) ==
    LET r == call[i].resp
    IN  IF r.kind = "response" THEN r
        ELSE IF r.kind = "error" THEN r.response
        ELSE None
Completed(i) == Exchange(i).kind = "response"
Done(i) == call[i].pc = "done"
StoreFailed(i) == call[i].resp = StoreError

\* The slot holds what the latest storage.set wrote, and nothing before the
\* first one.
SlotIsLastWrite ==
    IF setCount = 0 THEN token = Null
    ELSE \E k \in Calls : /\ call[k].setAt = setCount
                          /\ call[k].settle.state = "resolved"
                          /\ token = call[k].settle.value.data.data

\* C1: every request handed to the transport was prepared from a read of the
\* token slot; it carries Authorization "Bearer V" when the read gave a
\* non-null V and no Authorization header when the read gave null.
C1_HeaderFromStore ==
    \A i \in Calls :
        call[i].sent =>
            /\ \/ call[i].gotAt = 0 /\ call[i].got = Null
               \/ \E k \in Calls : /\ call[k].setAt = call[i].gotAt
                                   /\ call[k].setAt > 0
                                   /\ call[k].settle.state = "resolved"
                                   /\ call[i].got = call[k].settle.value.data.data
            /\ call[i].got = Null => call[i].hdr = NoHeader
            /\ call[i].got # Null => call[i].hdr = "Bearer " \o call[i].got

C1_Witness ==
    \E i, j \in Calls :
        /\ call[i].sent /\ call[i].got = Null /\ call[i].hdr = NoHeader
        /\ call[j].sent /\ call[j].got = "tokA" /\ call[j].hdr = "Bearer tokA"

\* C2 (as claimed): a call whose exchange completed with status 500 rejects
\* with the generic server-error payload, whatever the body.
C2_Status500Generic ==
    \A i \in Calls :
        (Completed(i) /\ Exchange(i).status = 500 /\ Done(i))
            => call[i].outcome = Rejected(GenericError)

\* C3 (as claimed): an exchange with a status other than 500 and a body with
\* ok = true makes the client's call resolve with the full response.
C3_OkResolvesAnyStatus ==
    \A i \in Calls :
        (Completed(i) /\ Exchange(i).status # 500 /\ Exchange(i).data.ok = "true")
            => call[i].settle = Resolved(Exchange(i))

\* C4: an exchange with a status other than 500 and a body whose ok is false
\* or missing makes the call reject with the whole response.
C4_NotOkRejectsWithResponse ==
    \A i \in Calls :
        (/\ Completed(i)
         /\ Exchange(i).status # 500
         /\ Exchange(i).data.ok \in {"false", "absent"})
            => /\ call[i].settle = Rejected(Exchange(i))
               /\ Done(i) => call[i].outcome = Rejected(Exchange(i))

C4_Witness ==
    \E i \in Calls :
        /\ Done(i) /\ Completed(i)
        /\ Exchange(i).status = 200 /\ Exchange(i).data.ok = "false"
        /\ call[i].outcome.state = "rejected"
        /\ call[i].outcome.value.kind = "response"
        /\ call[i].outcome.value.status = 200

\* C5: when the post of doLogin resolved with a response whose body has
\* ok = true and data = T, storage.set(T) has run before doLogin resolves, the
\* slot holds T from then until another storage.set runs, and doLogin
\* resolves with that response.
C5_LoginStoresToken ==
    \A i \in Calls :
        (/\ call[i].op = "doLogin"
         /\ call[i].settle.state = "resolved"
         /\ call[i].settle.value.data.ok = "true"
         /\ call[i].pc \in {"loginReturn", "done"})
            => /\ call[i].setAt > 0
               /\ call[i].setAt = setCount => token = call[i].settle.value.data.data
               /\ Done(i) => call[i].outcome = Resolved(Exchange(i))

C5_Witness ==
    \E i \in Calls :
        /\ call[i].op = "doLogin" /\ Done(i)
        /\ call[i].outcome.state = "resolved"
        /\ call[i].outcome.value.data.data = "tokB"
        /\ call[i].setAt = 2
        /\ token = "tokB"

\* C6: a doLogin whose exchange carried a body with ok = false rejects and
\* never calls storage.set, so the slot still holds what the latest
\* storage.set of another call wrote (or nothing).
C6_FailedLoginKeepsToken ==
    \A i \in Calls :
        (call[i].op = "doLogin" /\ Completed(i) /\ Exchange(i).data.ok = "false")
            => /\ call[i].setAt = 0
               /\ call[i].pc \in {"cont", "done"}
               /\ Done(i) => call[i].outcome.state = "rejected"
               /\ SlotIsLastWrite

C6_Witness ==
    \E i \in Calls :
        /\ call[i].op = "doLogin" /\ Done(i)
        /\ Completed(i) /\ Exchange(i).data.ok = "false"
        /\ call[i].outcome.state = "rejected"
        /\ token = "tokA"

\* The version order: v1 is newer than v2 when, at the first dotted component
\* where they differ (a missing one counting as 0), v1's is the larger.
Newer(v1, v2) ==
    \E k \in 1..MaxOf(Len(v1), Len(v2)) :
        /\ Part(v1, k) > Part(v2, k)
        /\ \A m \in 1..(k - 1) : Part(v1, m) = Part(v2, m)

\* C7: with the latest release r fetched and both versions well formed,
\* checkUpdate(c) resolves with {latest: false, release: r} exactly when
\* r.version is newer than c, and with {latest: true} and no release member
\* otherwise (equal versions included).
C7_CheckUpdateResult ==
    \A i \in Calls :
        (/\ call[i].op = "checkUpdate"
         /\ Done(i)
         /\ call[i].settle.state = "resolved"
         /\ IsValidVersion(call[i].arg)
         /\ IsValidVersion(call[i].settle.value.data.data.version))
            => LET r == call[i].settle.value.data.data
               IN  /\ call[i].outcome.state = "resolved"
                   /\ Newer(r.version, call[i].arg)
                        => call[i].outcome.value =
                             [kind |-> "result", latest |-> FALSE, release |-> r]
                   /\ ~ Newer(r.version, call[i].arg)
                        => call[i].outcome.value = [kind |-> "result", latest |-> TRUE]

C7_Witness ==
    \E i \in Calls :
        /\ call[i].op = "checkUpdate" /\ Done(i)
        /\ call[i].arg = <<0, 1>>
        /\ call[i].outcome.state = "resolved"
        /\ call[i].outcome.value =
             [kind |-> "result", latest |-> FALSE, release |-> [version |-> <<1>>]]

\* C8 (as claimed): when storage.get() fails, the request is not sent and the
\* call rejects with an error that carries the storage failure.
C8_StoreFailureCarried ==
    \A i \in Calls :
        StoreFailed(i)
            => /\ ~ call[i].sent
               /\ Done(i) => /\ call[i].outcome.state = "rejected"
                             /\ \/ call[i].outcome.value = StoreError
                                \/ call[i].outcome = requestRejected(StoreError)

C10_TokenLifecycle ==
    /\ \/ token = Null
       \/ \E k \in Calls : /\ call[k].op = "doLogin"
                           /\ Completed(k)
                           /\ Exchange(k).data.ok = "true"
                           /\ call[k].setAt > 0
                           /\ token = Exchange(k).data.data
    /\ SlotIsLastWrite
    /\ setCount > 0 => token # Null
    /\ \A k \in Calls :
         call[k].setAt > 0 => /\ call[k].op = "doLogin"
                              /\ call[k].settle.state = "resolved"
                              /\ call[k].settle.value.data.ok = "true"
    /\ setCount = Cardinality({k \in Calls : call[k].setAt > 0})

C10_Witness ==
    \E i, j \in Calls :
        /\ call[i].op = "doLogin" /\ call[i].setAt > 0
        /\ call[j].op = "resource" /\ Done(j) /\ call[j].outcome.state = "rejected"
        /\ i \in call[j].after
        /\ token = call[i].outcome.value.data.data

====
